---- MODULE Spec2Model ----
(***************************************************************************)
(* paris-traceroute: the command-line front end (paris-traceroute.c).      *)
(* main() is modelled statement group by statement group, with the goto    *)
(* error chain as explicit program-counter values; loop_handler is the     *)
(* callback pt_loop runs for every event.                                  *)
(***************************************************************************)
EXTENDS Integers, Sequences, FiniteSets, TLC

\* ------------------------------------------------------------------------
\* Program constants
\* ------------------------------------------------------------------------

UDP_DEFAULT_SRC_PORT == 33457
UDP_DEFAULT_DST_PORT == 33456
UDP_DST_PORT_USING_U == 53

TCP_DEFAULT_SRC_PORT == 16449
TCP_DEFAULT_DST_PORT == 16963
TCP_DST_PORT_USING_T == 80

\* Defaults documented by the help text (-s / -p) and stored in src_port[0] / dst_port[0]
SRC_PORT_DEF == 33456
DST_PORT_DEF == 33457

EXIT_SUCCESS == 0
EXIT_FAILURE == 1

algorithm_names == <<"paris-traceroute", "mda">>
format_names    == <<"default", "json", "xml">>
protocol_names  == <<"udp", "icmp", "tcp">>

\* ------------------------------------------------------------------------
\* Bounds of the model
\* ------------------------------------------------------------------------

\* send_time: default and minimum of -z, in thousandths of a second
SEND_TIME_DEF == 1000
SEND_TIME_MIN == 1000

\* Default of the option --max-ttl
DEFAULT_MAX_TTL == 30

\* Number of events pt_loop may deliver before ALGORITHM_HAS_TERMINATED
MaxEvents == 1

\* Largest TTL of a probe carried by an event
MaxTtl == 2

\* Latest time, in microseconds, at which a reply is received
MaxTime == 2

\* Ports the user may give with -s / -p
ExplicitPorts == {1234}

\* Destinations given on the command line: an IPv4 literal, an IPv6 literal,
\* a string that is neither an address nor a resolvable name
Destinations == {"10.0.0.5", "2001:db8::5", "no.such.host"}

NONE == "none"

VARIABLES
    argv,            \* the command line, as the options it holds
    pc,              \* position in main()
    exit_code,
    is_ipv4, is_ipv6, is_tcp, is_udp, is_icmp, sorted_print,
    dst_port, src_port, send_time,          \* [value, enabled]
    mda_is_set,                             \* options_mda_get_is_set()
    dst_ip, algorithm_name, protocol_name, format_name,
    use_icmp, use_tcp, use_udp,
    family,
    probe,           \* the probe skeleton, NONE before probe_create
    user_data,       \* user_data_t
    loop,            \* pt_loop_t: NONE, or its state
    event,           \* the event the handler was last called with
    hcalls,          \* the calls loop_handler made when it last ran, in order
    acquired,        \* per resource: number of times it was acquired
    released,        \* per resource: number of times it was released
    steps,           \* the steps of main() executed so far
    failed,          \* the steps of main() that failed
    max_ttl,         \* options_traceroute_get_max_ttl()
    handler_out,     \* what loop_handler has written to stdout, as tokens
    packet           \* a call of protocol_field_set: its arguments and its result

optVars  == <<is_ipv4, is_ipv6, is_tcp, is_udp, is_icmp, sorted_print,
              dst_port, src_port, send_time, mda_is_set,
              dst_ip, algorithm_name, protocol_name, format_name>>
useVars  == <<use_icmp, use_tcp, use_udp>>
resVars  == <<acquired, released>>
vars     == <<argv, pc, exit_code, optVars, useVars, family, probe, user_data,
              loop, event, hcalls, resVars, steps, failed, max_ttl, handler_out, packet>>

Resources == {"version", "options", "probe", "loop", "replies_by_ttl", "stars_by_ttl"}

\* ------------------------------------------------------------------------
\* The command lines explored
\* ------------------------------------------------------------------------

\* An option with an argument: << >> when absent, <<v>> when given with v
Opt(values) == {<< >>} \cup {<<v>> : v \in values}

Argv(ports, times, sorts, formats) ==
    [four : BOOLEAN, six : BOOLEAN,
     I : BOOLEAN, T : BOOLEAN, U : BOOLEAN,
     S : sorts,
     p : Opt(ports), s : Opt(ports),
     z : Opt(times),
     P : {protocol_names[i] : i \in 1..Len(protocol_names)},
     a : {algorithm_names[i] : i \in 1..Len(algorithm_names)},
     F : formats,
     mda : BOOLEAN,
     host : Destinations \cup {NONE}]

\* ------------------------------------------------------------------------
\* Options checking
\* ------------------------------------------------------------------------

\* check_ip_version without its test
check_ip_version_nocheck(ipv4, ipv6) == TRUE

check_ip_version(ipv4, ipv6) ==
    IF ipv4 /\ ipv6 THEN FALSE ELSE TRUE

\* check_protocol with the comparison off by one
check_protocol_offbyone(icmp, tcp, udp, name) ==
    LET check == (IF icmp THEN 1 ELSE 0) + (IF udp THEN 1 ELSE 0) + (IF tcp THEN 1 ELSE 0)
    IN  IF check > 2 THEN FALSE ELSE TRUE

check_protocol(icmp, tcp, udp, name) ==
    LET check == (IF icmp THEN 1 ELSE 0) + (IF udp THEN 1 ELSE 0) + (IF tcp THEN 1 ELSE 0)
    IN  IF check > 1 THEN FALSE ELSE TRUE

\* check_ports without its test
check_ports_nocheck(icmp, dst_port_enabled, src_port_enabled) == TRUE

check_ports(icmp, dst_port_enabled, src_port_enabled) ==
    IF icmp /\ (dst_port_enabled \/ src_port_enabled) THEN FALSE ELSE TRUE

check_algorithm(name, mda_set) ==
    IF mda_set /\ name # "mda" THEN FALSE ELSE TRUE

check_options(icmp, tcp, udp, ipv4, ipv6, dst_port_enabled, src_port_enabled, pname, aname, mda_set) ==
       check_ip_version(ipv4, ipv6)
    /\ check_protocol(icmp, tcp, udp, pname)
    /\ check_ports(icmp, dst_port_enabled, src_port_enabled)
    /\ check_algorithm(aname, mda_set)

\* ------------------------------------------------------------------------
\* Command-line / libparistraceroute translation
\* ------------------------------------------------------------------------

get_ip_protocol_name(fam) ==
    CASE fam = "AF_INET"  -> "ipv4"
      [] fam = "AF_INET6" -> "ipv6"
      [] OTHER            -> NONE

get_protocol_name(fam, icmp, tcp, udp) ==
    IF icmp THEN
        CASE fam = "AF_INET"  -> "icmpv4"
          [] fam = "AF_INET6" -> "icmpv6"
          [] OTHER            -> NONE
    ELSE IF tcp THEN "tcp"
    ELSE IF udp THEN "udp"
    ELSE NONE

\* use_icmp / use_tcp / use_udp
use_protocol(flag, pname, which) == flag \/ pname = which

\* sport, dport of the block guarded by !use_icmp
select_sport(udp, tcp, sp) ==
    IF udp THEN (IF sp.enabled THEN sp.value ELSE UDP_DEFAULT_SRC_PORT)
    ELSE IF tcp THEN (IF sp.enabled THEN sp.value ELSE TCP_DEFAULT_SRC_PORT)
    ELSE 0

select_dport(udp, tcp, flag_udp, flag_tcp, dp) ==
    IF udp THEN
        (IF dp.enabled THEN dp.value
         ELSE IF flag_udp THEN UDP_DST_PORT_USING_U ELSE UDP_DEFAULT_DST_PORT)
    ELSE IF tcp THEN
        (IF dp.enabled THEN dp.value
         ELSE IF flag_tcp THEN TCP_DST_PORT_USING_T ELSE TCP_DEFAULT_DST_PORT)
    ELSE 0

\* The delay given to probe_set_delay, in microseconds (send_time in thousandths of a second)
select_delay(st) ==
    IF st.value <= 10 * 1000 THEN 1000 * st.value ELSE st.value

\* ------------------------------------------------------------------------
\* Library functions main() relies on
\* ------------------------------------------------------------------------

address_guess_family(str) ==
    CASE str = "10.0.0.5"    -> "AF_INET"
      [] str = "2001:db8::5" -> "AF_INET6"
      [] OTHER               -> NONE

\* 0 on success
address_from_string(fam, str) ==
    IF fam # NONE /\ address_guess_family(str) = fam THEN 0 ELSE 1

\* ------------------------------------------------------------------------
\* Containers (containers/map.h)
\* ------------------------------------------------------------------------

EmptyMap == << >>

map_find(map, key) == key \in DOMAIN map

map_size(map) == Cardinality(DOMAIN map)

map_update(map, key, value) ==
    [k \in DOMAIN map \cup {key} |-> IF k = key THEN value ELSE map[k]]

\* ------------------------------------------------------------------------
\* protocol_field.c: protocol_field_set
\* ------------------------------------------------------------------------

\* The type tags of a field; TYPE_BYTES stands for every tag the switch of
\* protocol_field_set does not name
field_types ==
    {"TYPE_IPV4", "TYPE_IPV6", "TYPE_UINT4", "TYPE_UINT8", "TYPE_UINT16", "TYPE_UINT32",
     "TYPE_STRING", "TYPE_BYTES"}

SIZEOF_IPV6 == 16

\* Largest offset of a protocol field in its header
MaxOffset == 4

\* Fields lie in their header at the alignment of their type
Alignment(type) ==
    CASE type = "TYPE_UINT16" -> 2
      [] type = "TYPE_UINT32" -> 4
      [] OTHER                -> 1

\* Byte order of the machine the program runs on
Endians == {"little", "big"}

Reverse(s) == [i \in 1..Len(s) |-> s[Len(s) + 1 - i]]

\* An unsigned integer of n bytes is written as its n digits in base 256,
\* most significant first (uint32_t exceeds the integers of the checker).
\* The bytes such an integer object occupies in memory:
to_memory(endian, digits) == IF endian = "big" THEN digits ELSE Reverse(digits)

\* htons / htonl: the identity on a big-endian machine, a byte swap of the
\* value on a little-endian one
htons_none(endian, digits) == digits

htons(endian, digits) == IF endian = "big" THEN digits ELSE Reverse(digits)

htonl_none(endian, digits) == digits

htonl(endian, digits) == IF endian = "big" THEN digits ELSE Reverse(digits)

memcpy_shifted(buffer, offset, bytes) ==
    [i \in 1..Len(buffer) |->
        IF offset + 1 < i /\ i <= offset + 1 + Len(bytes)
        THEN bytes[i - offset - 1] ELSE buffer[i]]

\* memcpy(buffer + offset, bytes, Len(bytes))
memcpy(buffer, offset, bytes) ==
    [i \in 1..Len(buffer) |->
        IF offset < i /\ i <= offset + Len(bytes) THEN bytes[i - offset] ELSE buffer[i]]

\* protocol_field_set(protocol_field, buffer, field) on a machine of byte order
\* `endian`: type and offset are those of protocol_field, int and addr are the
\* members of field->value the switch reads
protocol_field_set(endian, type, offset, buffer, int, addr) ==
    CASE type = "TYPE_IPV4" ->
            [ret |-> TRUE, buffer |-> memcpy(buffer, offset, addr)]
      [] type = "TYPE_IPV6" ->
            [ret |-> TRUE, buffer |-> memcpy(buffer, offset, addr)]
      [] type = "TYPE_UINT8" ->
            [ret |-> TRUE, buffer |-> memcpy(buffer, offset, to_memory(endian, int))]
      [] type = "TYPE_UINT16" ->
            [ret |-> TRUE,
             buffer |-> memcpy(buffer, offset, to_memory(endian, htons(endian, int)))]
      [] type = "TYPE_UINT32" ->
            [ret |-> TRUE,
             buffer |-> memcpy(buffer, offset, to_memory(endian, htonl(endian, int)))]
      [] OTHER ->
            [ret |-> FALSE, buffer |-> buffer]

\* protocol_field_get_size: the size in bytes of a field of the protocol
\* field's type, 0 for the types protocol_field_set does not write
protocol_field_get_size(type) ==
    CASE type = "TYPE_IPV4"   -> 4
      [] type = "TYPE_IPV6"   -> SIZEOF_IPV6
      [] type = "TYPE_UINT8"  -> 1
      [] type = "TYPE_UINT16" -> 2
      [] type = "TYPE_UINT32" -> 4
      [] OTHER                -> 0

\* Values of the integer members of field->value
IntValues(type) ==
    CASE type = "TYPE_UINT8"  -> {<<0>>, <<1>>, <<128>>, <<255>>}
      [] type = "TYPE_UINT16" -> {<<0, 0>>, <<0, 1>>, <<0, 255>>, <<1, 0>>, <<18, 52>>,
                                  <<255, 255>>}
      [] type = "TYPE_UINT32" -> {<<0, 0, 0, 0>>, <<0, 0, 0, 1>>, <<0, 1, 0, 0>>,
                                  <<1, 2, 3, 4>>, <<128, 0, 0, 1>>, <<255, 255, 255, 255>>}
      [] type = "TYPE_UINT4"  -> {<<0>>, <<15>>}
      [] OTHER                -> {<< >>}

\* Values of the address members of field->value
AddrValues(type) ==
    CASE type = "TYPE_IPV4" -> {<<10, 0, 0, 5>>, <<192, 168, 1, 254>>}
      [] type = "TYPE_IPV6" -> {<<32, 1, 13, 184, 0, 0, 0, 0, 0, 0, 0, 0, 0, 0, 0, 5>>}
      [] OTHER              -> {<< >>}

\* The header buffer before the call: every byte differs from its neighbours
HeaderBuffer == [i \in 1..(MaxOffset + SIZEOF_IPV6) |-> 200 + i]

\* No call of protocol_field_set
NoPacket ==
    [stage |-> "idle", endian |-> "little", ptype |-> NONE, ftype |-> NONE, offset |-> 0,
     int |-> << >>, addr |-> << >>, buffer |-> << >>, before |-> << >>, ret |-> FALSE]

\* The calls of protocol_field_set on a protocol field of type ptype: the
\* field_t has any type ftype. The switch reads the member of field->value
\* that ptype names; when ftype names another member, that member holds
\* whatever the union's bytes give.
PacketsOf(ptype) ==
    {[stage |-> "ready", endian |-> en, ptype |-> ptype, ftype |-> ft, offset |-> off,
      int |-> n, addr |-> a, buffer |-> HeaderBuffer, before |-> HeaderBuffer, ret |-> FALSE] :
        en \in Endians, ft \in field_types,
        off \in {o \in 0..MaxOffset : o % Alignment(ptype) = 0},
        n \in IntValues(ptype), a \in AddrValues(ptype)}

Packets == UNION {PacketsOf(ptype) : ptype \in field_types}

\* protocol_field_set(protocol_field, buffer, field) is called
ProtocolFieldSet ==
    /\ packet.stage = "ready"
    /\ LET r == protocol_field_set(packet.endian, packet.ptype, packet.offset,
                                   packet.buffer, packet.int, packet.addr)
       IN packet' = [packet EXCEPT !.stage = "done", !.buffer = r.buffer, !.ret = r.ret]
    /\ UNCHANGED <<argv, pc, exit_code, optVars, useVars, family, probe, user_data, loop,
                   event, hcalls, resVars, steps, failed, max_ttl, handler_out>>

\* ------------------------------------------------------------------------
\* Initial state: main() entered, the initialisers of its locals executed
\* ------------------------------------------------------------------------

Count(f, r) == [f EXCEPT ![r] = @ + 1]

\* The limits of the bounded parameter send_time: minimum 1 s, maximum DBL_MAX
send_time_in_limits(v) == v >= SEND_TIME_MIN

InitWith(cmdlines) ==
    /\ argv \in cmdlines
    /\ pc = "init_options"
    /\ exit_code = EXIT_FAILURE
    /\ is_ipv4 = FALSE /\ is_ipv6 = FALSE
    /\ is_tcp = FALSE /\ is_udp = FALSE /\ is_icmp = FALSE
    /\ sorted_print = FALSE
    /\ dst_port  = [value |-> DST_PORT_DEF, enabled |-> FALSE]
    /\ src_port  = [value |-> SRC_PORT_DEF, enabled |-> FALSE]
    /\ send_time = [value |-> SEND_TIME_DEF, enabled |-> FALSE]
    /\ mda_is_set = FALSE
    /\ dst_ip = NONE /\ algorithm_name = NONE /\ protocol_name = NONE /\ format_name = NONE
    /\ use_icmp = FALSE /\ use_tcp = FALSE /\ use_udp = FALSE
    /\ family = NONE
    /\ probe = NONE
    /\ user_data = NONE
    /\ loop = NONE
    /\ event = NONE
    /\ hcalls = << >>
    /\ acquired = [r \in Resources |-> IF r = "version" THEN 1 ELSE 0]
    /\ released = [r \in Resources |-> 0]
    /\ steps = {}
    /\ failed = {}
    /\ handler_out = << >>

\* ------------------------------------------------------------------------
\* main()
\* ------------------------------------------------------------------------

\* options = init_options(version)
InitOptions ==
    /\ pc = "init_options"
    /\ \E ok \in BOOLEAN :
         IF ok
         THEN /\ acquired' = Count(acquired, "options")
              /\ pc' = "options_parse"
              /\ failed' = failed
         ELSE /\ acquired' = acquired
              /\ pc' = "ERR_INIT_OPTIONS"
              /\ failed' = failed \cup {"init_options"}
    /\ steps' = steps \cup {"init_options"}
    /\ UNCHANGED <<argv, max_ttl, packet, handler_out, exit_code, optVars, useVars, family, probe, user_data,
                   loop, event, hcalls, released>>

\* options_parse(options, usage, argv), then dst_ip, algorithm_name,
\* protocol_name and format_name are read. A -z value outside the limits of
\* send_time is an option error: the parser prints it and ends the process.
OptionsParse ==
    /\ pc = "options_parse"
    /\ is_ipv4' = argv.four /\ is_ipv6' = argv.six
    /\ is_icmp' = argv.I /\ is_tcp' = argv.T /\ is_udp' = argv.U
    /\ sorted_print' = argv.S
    /\ dst_port' = IF argv.p = << >> THEN dst_port ELSE [value |-> argv.p[1], enabled |-> TRUE]
    /\ src_port' = IF argv.s = << >> THEN src_port ELSE [value |-> argv.s[1], enabled |-> TRUE]
    /\ send_time' = IF argv.z # << >> /\ send_time_in_limits(argv.z[1])
                    THEN [value |-> argv.z[1], enabled |-> TRUE]
                    ELSE send_time
    /\ mda_is_set' = argv.mda
    /\ steps' = steps \cup {"options_parse"}
    /\ IF argv.z # << >> /\ ~send_time_in_limits(argv.z[1])
       THEN /\ UNCHANGED <<dst_ip, algorithm_name, protocol_name, format_name>>
            /\ pc' = "exit"
            /\ failed' = failed \cup {"options_parse"}
       ELSE IF argv.host # NONE
       THEN /\ dst_ip' = argv.host
            /\ algorithm_name' = argv.a
            /\ protocol_name' = argv.P
            /\ format_name' = argv.F
            /\ pc' = "check_options"
            /\ failed' = failed
       ELSE /\ UNCHANGED <<dst_ip, algorithm_name, protocol_name, format_name>>
            /\ pc' = "ERR_INIT_OPTIONS"
            /\ failed' = failed \cup {"options_parse"}
    /\ UNCHANGED <<argv, max_ttl, packet, handler_out, exit_code, useVars, family, probe,
                   user_data, loop, event, hcalls, resVars>>

\* check_options(...), then use_icmp, use_tcp, use_udp
CheckOptions ==
    /\ pc = "check_options"
    /\ IF check_options(is_icmp, is_tcp, is_udp, is_ipv4, is_ipv6, dst_port.enabled,
                        src_port.enabled, protocol_name, algorithm_name, mda_is_set)
       THEN /\ use_icmp' = use_protocol(is_icmp, protocol_name, "icmp")
            /\ use_tcp'  = use_protocol(is_tcp,  protocol_name, "tcp")
            /\ use_udp'  = use_protocol(is_udp,  protocol_name, "udp")
            /\ pc' = "family"
            /\ failed' = failed
       ELSE /\ UNCHANGED useVars
            /\ pc' = "ERR_INIT_OPTIONS"
            /\ failed' = failed \cup {"check_options"}
    /\ steps' = steps \cup {"check_options"}
    /\ UNCHANGED <<argv, max_ttl, packet, handler_out, exit_code, optVars, family, probe, user_data, loop, event, hcalls,
                   resVars>>

\* family = AF_INET | AF_INET6 | address_guess_family(dst_ip)
select_family(ipv4, ipv6, str) ==
    IF ipv4 THEN "AF_INET"
    ELSE IF ipv6 THEN "AF_INET6"
    ELSE address_guess_family(str)

GuessFamily ==
    /\ pc = "family"
    /\ family' = select_family(is_ipv4, is_ipv6, dst_ip)
    /\ steps' = IF is_ipv4 \/ is_ipv6 THEN steps ELSE steps \cup {"address_guess_family"}
    /\ IF family' = NONE
       THEN /\ pc' = "ERR_PROBE_CREATE"
            /\ failed' = failed \cup {"address_guess_family"}
       ELSE /\ pc' = "address_from_string"
            /\ failed' = failed
    /\ UNCHANGED <<argv, max_ttl, packet, handler_out, exit_code, optVars, useVars, probe, user_data, loop, event, hcalls, resVars>>

\* address_from_string(family, dst_ip, &dst_addr)
AddressFromString ==
    /\ pc = "address_from_string"
    /\ steps' = steps \cup {"address_from_string"}
    /\ IF address_from_string(family, dst_ip) # 0
       THEN /\ pc' = "ERR_PROBE_CREATE"
            /\ failed' = failed \cup {"address_from_string"}
       ELSE /\ pc' = "probe_create"
            /\ failed' = failed
    /\ UNCHANGED <<argv, max_ttl, packet, handler_out, exit_code, optVars, useVars, family, probe, user_data, loop,
                   event, hcalls, resVars>>

\* probe = probe_create()
ProbeCreate ==
    /\ pc = "probe_create"
    /\ steps' = steps \cup {"probe_create"}
    /\ \E ok \in BOOLEAN :
         IF ok
         THEN /\ probe' = [protocols |-> << >>, fields |-> EmptyMap, payload |-> 0]
              /\ acquired' = Count(acquired, "probe")
              /\ pc' = "probe_prepare"
              /\ failed' = failed
         ELSE /\ UNCHANGED <<probe, acquired>>
              /\ pc' = "ERR_PROBE_CREATE"
              /\ failed' = failed \cup {"probe_create"}
    /\ UNCHANGED <<argv, max_ttl, packet, handler_out, exit_code, optVars, useVars, family, user_data, loop, event, hcalls, released>>

\* probe_set_field(s): the key is written when a layer of the probe exposes it
HasPorts(p) == \E i \in 1..Len(p.protocols) : p.protocols[i] \in {"udp", "tcp"}

probe_set_field(p, key, value) == [p EXCEPT !.fields = map_update(@, key, value)]

probe_set_protocols(p, ip_name, name) == [p EXCEPT !.protocols = <<ip_name, name>>]

\* The probe skeleton once main() has prepared it
prepare_probe(p, set_ok) ==
    LET p1 == IF set_ok
              THEN probe_set_protocols(p, get_ip_protocol_name(family),
                                       get_protocol_name(family, use_icmp, use_tcp, use_udp))
              ELSE p
        p2 == IF p1.protocols # << >> THEN probe_set_field(p1, "dst_ip", dst_ip) ELSE p1
        p3 == IF send_time.enabled
              THEN probe_set_field(p2, "delay", select_delay(send_time)) ELSE p2
        p4 == IF ~use_icmp /\ HasPorts(p3)
              THEN [probe_set_field(
                        probe_set_field(p3, "src_port", select_sport(use_udp, use_tcp, src_port)),
                        "dst_port", select_dport(use_udp, use_tcp, is_udp, is_tcp, dst_port))
                    EXCEPT !.payload = 2]
              ELSE p3
    IN  p4

\* probe_set_protocols ... probe_payload_resize: no result is looked at
ProbePrepare ==
    /\ pc = "probe_prepare"
    /\ steps' = steps \cup {"probe_set_protocols"}
    /\ \E ok \in (IF NONE \in {get_ip_protocol_name(family),
                               get_protocol_name(family, use_icmp, use_tcp, use_udp)}
                  THEN {FALSE} ELSE BOOLEAN) :
         /\ probe' = prepare_probe(probe, ok)
         /\ failed' = IF ok THEN failed ELSE failed \cup {"probe_set_protocols"}
    /\ pc' = "algorithm_options"
    /\ UNCHANGED <<argv, max_ttl, packet, handler_out, exit_code, optVars, useVars, family, user_data, loop, event, hcalls,
                   resVars>>

\* Algorithm options (dedicated options)
select_algorithm(name, mda_set) ==
    IF name = "paris-traceroute" THEN "traceroute"
    ELSE IF name = "mda" \/ mda_set THEN name
    ELSE NONE

AlgorithmOptions ==
    /\ pc = "algorithm_options"
    /\ IF select_algorithm(algorithm_name, mda_is_set) # NONE
       THEN /\ algorithm_name' = select_algorithm(algorithm_name, mda_is_set)
            /\ pc' = "user_data"
            /\ failed' = failed
       ELSE /\ algorithm_name' = algorithm_name
            /\ pc' = "ERR_LOOP_CREATE"
            /\ failed' = failed \cup {"algorithm"}
    /\ steps' = steps \cup {"algorithm"}
    /\ UNCHANGED <<argv, max_ttl, packet, handler_out, exit_code, is_ipv4, is_ipv6, is_tcp, is_udp, is_icmp, sorted_print,
                   dst_port, src_port, send_time, mda_is_set, dst_ip, protocol_name,
                   format_name, useVars, family, probe, user_data, loop, event, hcalls,
                   resVars>>

\* user_data.format
select_format(name) ==
    IF name = "json" THEN "FORMAT_JSON"
    ELSE IF name = "xml" THEN "FORMAT_XML"
    ELSE "FORMAT_DEFAULT"

HasMaps(fmt) == fmt \in {"FORMAT_JSON", "FORMAT_XML"}

\* Prepare structures for JSON and XML outputs
PrepareUserData ==
    /\ pc = "user_data"
    /\ LET fmt == select_format(format_name) IN
         /\ user_data' = [format |-> fmt,
                          replies_by_ttl |-> IF HasMaps(fmt) THEN EmptyMap ELSE NONE,
                          stars_by_ttl   |-> IF HasMaps(fmt) THEN EmptyMap ELSE NONE,
                          is_first_probe_star |-> TRUE,
                          destination |-> dst_ip,
                          protocol |-> protocol_name]
         /\ acquired' = IF HasMaps(fmt)
                        THEN Count(Count(acquired, "replies_by_ttl"), "stars_by_ttl")
                        ELSE acquired
    /\ pc' = "pt_loop_create"
    /\ UNCHANGED <<argv, max_ttl, packet, handler_out, exit_code, optVars, useVars, family, probe, loop, event, hcalls,
                   released, steps, failed>>

\* loop = pt_loop_create(loop_handler, &user_data)
PtLoopCreate ==
    /\ pc = "pt_loop_create"
    /\ steps' = steps \cup {"pt_loop_create"}
    /\ \E ok \in BOOLEAN :
         IF ok
         THEN /\ loop' = [instance |-> NONE, mda_data |-> NONE, mda_frees |-> 0,
                          terminated |-> FALSE, delivered |-> 0]
              /\ acquired' = Count(acquired, "loop")
              /\ pc' = "pt_add_instance"
              /\ failed' = failed
         ELSE /\ UNCHANGED <<loop, acquired>>
              /\ pc' = "ERR_LOOP_CREATE"
              /\ failed' = failed \cup {"pt_loop_create"}
    /\ UNCHANGED <<argv, max_ttl, packet, handler_out, exit_code, optVars, useVars, family, probe, user_data, event, hcalls,
                   released>>

\* pt_add_instance(loop, algorithm_name, algorithm_options, probe)
PtAddInstance ==
    /\ pc = "pt_add_instance"
    /\ steps' = steps \cup {"pt_add_instance"}
    /\ \E ok \in BOOLEAN :
         IF ok
         THEN /\ loop' = [loop EXCEPT !.instance = "running",
                                      !.mda_data = IF algorithm_name = "mda"
                                                   THEN "allocated" ELSE NONE]
              /\ pc' = "pt_loop"
              /\ failed' = failed
         ELSE /\ loop' = loop
              /\ pc' = "ERR_INSTANCE"
              /\ failed' = failed \cup {"pt_add_instance"}
    /\ UNCHANGED <<argv, max_ttl, packet, handler_out, exit_code, optVars, useVars, family, probe, user_data, event, hcalls,
                   resVars>>

\* ------------------------------------------------------------------------
\* Events raised by libparistraceroute
\* ------------------------------------------------------------------------

\* Sending time of a probe and receiving time of its reply, in microseconds:
\* the reply is received after the probe was sent
ProbeTimes == {t \in (0..MaxTime) \X (0..MaxTime) : t[1] < t[2]}

AlgorithmEvents(issuer) ==
    IF issuer = "mda"
    THEN {[sub |-> "MDA_NEW_LINK", ttl |-> 0, sent |-> 0, recv |-> 0]}
         \cup {[sub |-> "MDA_PROBE_REPLY", ttl |-> k, sent |-> t[1], recv |-> t[2]] :
                    k \in 1..MaxTtl, t \in ProbeTimes}
         \cup {[sub |-> "MDA_PROBE_TIMEOUT", ttl |-> k, sent |-> 0, recv |-> 0] :
                    k \in 1..MaxTtl}
    ELSE [sub : {"TRACEROUTE_PROBE_REPLY", "TRACEROUTE_STAR"}, ttl : 1..MaxTtl,
          sent : {0}, recv : {0}]

\* The events an instance of algorithm `issuer` may raise as its n-th event
Events(issuer, n) ==
    {[id |-> n, type |-> "ALGORITHM_HAS_TERMINATED", issuer |-> issuer, sub |-> NONE,
      ttl |-> 0, sent |-> 0, recv |-> 0, state |-> "allocated"],
     [id |-> n, type |-> "ALGORITHM_ERROR", issuer |-> issuer, sub |-> NONE,
      ttl |-> 0, sent |-> 0, recv |-> 0, state |-> "allocated"]}
    \cup {[id |-> n, type |-> "ALGORITHM_EVENT", issuer |-> issuer, sub |-> x.sub,
           ttl |-> x.ttl, sent |-> x.sent, recv |-> x.recv, state |-> "allocated"] :
                x \in AlgorithmEvents(issuer)}

\* ------------------------------------------------------------------------
\* JSON output
\* ------------------------------------------------------------------------

delay_probe_reply_swapped(send_time_probe, recv_time_reply) ==
    1000 * (send_time_probe - recv_time_reply)

\* The delay of a reply, in milliseconds when the times are in seconds: with
\* the times in microseconds, in millionths of a millisecond
delay_probe_reply(send_time_probe, recv_time_reply) ==
    1000 * (recv_time_reply - send_time_probe)

\* printf("%5.3lf") of a delay: rounded to the thousandth of a millisecond
printf_5_3lf(delay) == 1000 * ((delay + 500) \div 1000)

\* What is written to stdout is a sequence of tokens; `ref` is the probe or
\* reply an element is printed from, `rtt` the delay it prints
Text(t) == [tok |-> t, ref |-> 0, rtt |-> 0]

\* enriched_reply->reply = reply; enriched_reply->delay = delay_probe_reply(probe, reply)
enriched_reply_of(e) == [reply |-> e.id, delay |-> delay_probe_reply(e.sent, e.recv)]

\* A copy of an enriched reply holds the same reply pointer
enriched_reply_shallow_copy(r) == [reply |-> r.reply, delay |-> r.delay]

reply_to_json(enriched_reply) ==
    [tok |-> "reply", ref |-> enriched_reply.reply, rtt |-> printf_5_3lf(enriched_reply.delay)]

star_to_json(star) == [tok |-> "star", ref |-> star.probe, rtt |-> 0]

element_to_json(kind, element) ==
    IF kind = "reply" THEN reply_to_json(element) ELSE star_to_json(element)

\* The inner loop of replies_to_json / stars_to_json from cell j on
RECURSIVE cells_to_json(_, _, _)
cells_to_json(kind, vector, j) ==
    IF j > Len(vector) THEN << >>
    ELSE <<element_to_json(kind, vector[j])>>
         \o (IF j # Len(vector) THEN <<Text(",")>> ELSE << >>)
         \o cells_to_json(kind, vector, j + 1)

\* The loop over the TTLs of replies_to_json / stars_to_json from TTL i on
RECURSIVE hops_to_json(_, _, _, _)
hops_to_json(kind, map, max, i) ==
    IF ~(i < max) THEN << >>
    ELSE IF map_find(map, i)
    THEN <<[tok |-> "{\"hop\":i,\"result\":[", ref |-> i, rtt |-> 0]>>
         \o cells_to_json(kind, map[i], 1)
         \o <<Text("]}")>>
         \o (IF i < map_size(map)
             THEN <<Text(",")>> \o hops_to_json(kind, map, max, i + 1)
             ELSE <<Text("]\n")>>)
    ELSE hops_to_json(kind, map, max, i + 1)

replies_to_json(replies_by_ttl, max) ==
    <<Text("\"results\":[")>> \o hops_to_json("reply", replies_by_ttl, max, 1)

stars_to_json(stars_by_ttl, max) ==
    <<Text("\"stars\":[")>> \o hops_to_json("star", stars_by_ttl, max, 1)

\* mda_infos_dump: "from", "to" and "protocol"
mda_infos_to_json == <<Text("infos")>>

\* vector_push_element on the vector of `key`, created when the map has none
push_by_ttl(map, key, element) ==
    IF map_find(map, key)
    THEN [map EXCEPT ![key] = Append(@, element)]
    ELSE map_update(map, key, <<element>>)

traceroute_enriched_handler(ud, e, sorted) ==
    IF ud.format # "FORMAT_JSON" THEN ud
    ELSE IF e.sub = "MDA_PROBE_REPLY" THEN
        IF sorted
        THEN [ud EXCEPT !.is_first_probe_star = FALSE,
                        !.replies_by_ttl =
                            push_by_ttl(@, e.ttl, enriched_reply_shallow_copy(enriched_reply_of(e)))]
        ELSE [ud EXCEPT !.is_first_probe_star = FALSE]
    ELSE IF e.sub = "MDA_PROBE_TIMEOUT" THEN
        IF sorted
        THEN [ud EXCEPT !.is_first_probe_star = FALSE,
                        !.stars_by_ttl = push_by_ttl(@, e.ttl, [probe |-> e.id])]
        ELSE [ud EXCEPT !.is_first_probe_star = FALSE]
    ELSE ud

\* What traceroute_enriched_handler writes to stdout
enriched_handler_output(ud, e, sorted) ==
    IF ud.format # "FORMAT_JSON" \/ sorted
       \/ e.sub \notin {"MDA_PROBE_REPLY", "MDA_PROBE_TIMEOUT"}
    THEN << >>
    ELSE (IF ud.is_first_probe_star
          THEN <<Text("{")>> \o mda_infos_to_json \o <<Text("\"results\": [")>>
          ELSE <<Text(",")>>)
         \o (IF e.sub = "MDA_PROBE_REPLY"
             THEN <<reply_to_json(enriched_reply_of(e))>>
             ELSE <<star_to_json([probe |-> e.id])>>)

\* ------------------------------------------------------------------------
\* loop_handler
\* ------------------------------------------------------------------------

\* user_data after loop_handler has handled e
handler_user_data(ud, e, sorted) ==
    IF e.type = "ALGORITHM_EVENT" /\ e.issuer = "mda"
    THEN IF e.sub = "MDA_PROBE_REPLY" /\ ud.format = "FORMAT_JSON"
         THEN traceroute_enriched_handler(ud, e, sorted)
         ELSE IF e.sub = "MDA_PROBE_TIMEOUT" /\ ud.format \in {"FORMAT_XML", "FORMAT_JSON"}
         THEN traceroute_enriched_handler(ud, e, sorted)
         ELSE ud
    ELSE ud

\* The output and library calls of the case ALGORITHM_HAS_TERMINATED for MDA
terminated_mda_calls(ud, sorted) ==
    (CASE ud.format = "FORMAT_DEFAULT" -> <<"lattice_dump">>
       [] ud.format = "FORMAT_XML"     -> << >>
       [] ud.format = "FORMAT_JSON"    ->
            IF sorted
            THEN <<"mda_infos_dump">>
                 \o (IF map_size(ud.replies_by_ttl) > 0 THEN <<"replies_to_json_dump">> ELSE << >>)
                 \o (IF map_size(ud.stars_by_ttl) > 0 THEN <<"stars_to_json_dump">> ELSE << >>)
            ELSE << >>)
    \o <<"mda_data_free">>

\* What the case ALGORITHM_HAS_TERMINATED writes to stdout for MDA
terminated_mda_output(ud, sorted, max) ==
    CASE ud.format = "FORMAT_DEFAULT" -> <<Text("Lattice")>>
      [] ud.format = "FORMAT_XML"     -> << >>
      [] ud.format = "FORMAT_JSON"    ->
            IF sorted
            THEN <<Text("{")>> \o mda_infos_to_json
                 \o (IF map_size(ud.replies_by_ttl) > 0
                     THEN replies_to_json(ud.replies_by_ttl, max)
                     ELSE <<Text("\"results\":[]")>>)
                 \o <<Text(",")>>
                 \o (IF map_size(ud.stars_by_ttl) > 0
                     THEN stars_to_json(ud.stars_by_ttl, max)
                     ELSE <<Text("\"stars\":[]")>>)
                 \o <<Text("}\n")>>
            ELSE <<Text("]}\n")>>

handler_calls_every(ud, e, sorted) ==
    <<"pt_stop_instance", "pt_del_instance", "pt_loop_terminate">>

\* The library calls loop_handler makes for e, in order, event_free excepted
handler_calls(ud, e, sorted) ==
    CASE e.type = "ALGORITHM_HAS_TERMINATED" ->
            (IF e.issuer = "mda" THEN terminated_mda_calls(ud, sorted) ELSE << >>)
            \o <<"pt_stop_instance", "pt_del_instance", "pt_loop_terminate">>
      [] e.type = "ALGORITHM_EVENT" ->
            IF e.issuer = "mda" THEN
                CASE e.sub = "MDA_NEW_LINK" ->
                        IF ud.format = "FORMAT_DEFAULT" THEN <<"mda_link_dump">> ELSE << >>
                  [] e.sub = "MDA_PROBE_REPLY" ->
                        IF ud.format = "FORMAT_JSON"
                        THEN <<"traceroute_enriched_handler">> ELSE << >>
                  [] e.sub = "MDA_PROBE_TIMEOUT" ->
                        IF ud.format \in {"FORMAT_XML", "FORMAT_JSON"}
                        THEN <<"traceroute_enriched_handler">> ELSE << >>
                  [] OTHER -> << >>
            ELSE IF e.issuer = "traceroute" THEN <<"traceroute_handler">>
            ELSE << >>
      [] OTHER -> << >>

\* What loop_handler writes to stdout for e
handler_output(ud, e, sorted, max) ==
    CASE e.type = "ALGORITHM_HAS_TERMINATED" ->
            IF e.issuer = "mda" THEN terminated_mda_output(ud, sorted, max) ELSE << >>
      [] e.type = "ALGORITHM_EVENT" ->
            IF e.issuer = "mda" THEN
                CASE e.sub = "MDA_NEW_LINK" ->
                        IF ud.format = "FORMAT_DEFAULT" THEN <<Text("link")>> ELSE << >>
                  [] e.sub = "MDA_PROBE_REPLY" ->
                        IF ud.format = "FORMAT_JSON"
                        THEN enriched_handler_output(ud, e, sorted) ELSE << >>
                  [] e.sub = "MDA_PROBE_TIMEOUT" ->
                        <<Text("loop_handler: format = %d\n")>>
                        \o (IF ud.format \in {"FORMAT_XML", "FORMAT_JSON"}
                            THEN enriched_handler_output(ud, e, sorted) ELSE << >>)
                  [] OTHER -> << >>
            ELSE IF e.issuer = "traceroute" THEN <<Text("traceroute_handler")>>
            ELSE << >>
      [] OTHER -> << >>

\* What loop_handler does with the event itself before it returns
handler_event_free(e) == [e EXCEPT !.state = "freed"]

\* mda_data_free(mda_data)
mda_data_free(l) == [l EXCEPT !.mda_data = "freed", !.mda_frees = @ + 1]

\* pt_stop_instance(loop, instance) runs the teardown of the instance, which
\* frees the data the instance owns: for MDA, the MDA data with its lattice
pt_stop_instance(l, issuer) ==
    IF issuer = "mda" THEN [l EXCEPT !.mda_data = "freed", !.mda_frees = @ + 1] ELSE l

pt_del_instance(l) == [l EXCEPT !.instance = "deleted"]

pt_loop_terminate(l) == [l EXCEPT !.terminated = TRUE]

\* The loop after the calls loop_handler made on it
handler_loop(l, e) ==
    IF e.type = "ALGORITHM_HAS_TERMINATED"
    THEN LET l1 == IF e.issuer = "mda" THEN mda_data_free(l) ELSE l
             l2 == pt_loop_terminate(pt_del_instance(pt_stop_instance(l1, e.issuer)))
         IN [l2 EXCEPT !.delivered = @ + 1]
    ELSE [l EXCEPT !.delivered = @ + 1]

\* pt_loop runs loop_handler on the next event of the instance; no probe is
\* sent with a TTL above max_ttl
LoopHandler ==
    /\ pc = "pt_loop"
    /\ ~loop.terminated
    /\ loop.instance = "running"
    /\ \E e \in Events(algorithm_name, loop.delivered + 1) :
         /\ loop.delivered >= MaxEvents => e.type = "ALGORITHM_HAS_TERMINATED"
         /\ e.ttl <= max_ttl
         /\ user_data' = handler_user_data(user_data, e, sorted_print)
         /\ hcalls' = handler_calls(user_data, e, sorted_print) \o <<"event_free">>
         /\ handler_out' = handler_out \o handler_output(user_data, e, sorted_print, max_ttl)
         /\ event' = handler_event_free(e)
         /\ loop' = handler_loop(loop, e)
    /\ steps' = steps \cup {"pt_loop"}
    /\ UNCHANGED <<argv, max_ttl, packet, pc, exit_code, optVars, useVars, family, probe,
                   resVars, failed>>

\* map_probe_free: the vectors of the TTLs 1 .. max_ttl - 1 are freed, not the map
map_probe_free(rel, name) == rel

\* pt_loop returned 0: exit_code = EXIT_SUCCESS, then the memory used for output is freed
PtLoopReturn ==
    /\ pc = "pt_loop"
    /\ loop.terminated
    /\ steps' = steps \cup {"pt_loop"}
    /\ exit_code' = EXIT_SUCCESS
    /\ released' = IF HasMaps(user_data.format)
                   THEN map_probe_free(map_probe_free(released, "replies_by_ttl"), "stars_by_ttl")
                   ELSE released
    /\ pc' = "ERR_INSTANCE"
    /\ UNCHANGED <<argv, max_ttl, packet, handler_out, optVars, useVars, family, probe, user_data, loop, event, hcalls,
                   acquired, failed>>

\* pt_loop returned a negative value
PtLoopInterrupted ==
    /\ pc = "pt_loop"
    /\ ~loop.terminated
    /\ steps' = steps \cup {"pt_loop"}
    /\ failed' = failed \cup {"pt_loop"}
    /\ pc' = "ERR_INSTANCE"
    /\ UNCHANGED <<argv, max_ttl, packet, handler_out, exit_code, optVars, useVars, family, probe, user_data, loop, event,
                   hcalls, resVars>>

\* ERR_PT_LOOP, ERR_INSTANCE: pt_loop_free(loop)
ErrInstance ==
    /\ pc = "ERR_INSTANCE"
    /\ released' = Count(released, "loop")
    /\ pc' = "ERR_LOOP_CREATE"
    /\ UNCHANGED <<argv, max_ttl, packet, handler_out, exit_code, optVars, useVars, family, probe, user_data, loop, event,
                   hcalls, acquired, steps, failed>>

\* ERR_LOOP_CREATE, ERR_UNKNOWN_ALGORITHM: probe_free(probe)
ErrLoopCreate ==
    /\ pc = "ERR_LOOP_CREATE"
    /\ released' = Count(released, "probe")
    /\ pc' = "ERR_PROBE_CREATE"
    /\ UNCHANGED <<argv, max_ttl, packet, handler_out, exit_code, optVars, useVars, family, probe, user_data, loop, event,
                   hcalls, acquired, steps, failed>>

\* ERR_PROBE_CREATE, ERR_ADDRESS_IP_FROM_STRING, ERR_ADDRESS_GUESS_FAMILY: perror
ErrProbeCreate ==
    /\ pc = "ERR_PROBE_CREATE"
    /\ pc' = "ERR_INIT_OPTIONS"
    /\ UNCHANGED <<argv, max_ttl, packet, handler_out, exit_code, optVars, useVars, family, probe, user_data, loop, event,
                   hcalls, resVars, steps, failed>>

\* ERR_CHECK_OPTIONS, ERR_OPT_PARSE, ERR_INIT_OPTIONS: free(version); exit(exit_code)
ErrInitOptions ==
    /\ pc = "ERR_INIT_OPTIONS"
    /\ released' = Count(released, "version")
    /\ pc' = "exit"
    /\ UNCHANGED <<argv, max_ttl, packet, handler_out, exit_code, optVars, useVars, family, probe, user_data, loop, event,
                   hcalls, acquired, steps, failed>>

\* ------------------------------------------------------------------------
\* Specification
\* ------------------------------------------------------------------------

\* The command lines of Spec: every flag, --protocol, --algorithm and
\* destination, -s / -p absent or given, -z absent, every output format
\* (--format exists in the builds that compile the option in)
MainArgv == Argv(ExplicitPorts, {}, BOOLEAN, {format_names[i] : i \in 1..Len(format_names)})

\* max_ttl is left at its default and no header field is being written
Init == InitWith(MainArgv) /\ max_ttl = DEFAULT_MAX_TTL /\ packet = NoPacket

Next ==
    \/ InitOptions
    \/ OptionsParse
    \/ CheckOptions
    \/ GuessFamily
    \/ AddressFromString
    \/ ProbeCreate
    \/ ProbePrepare
    \/ AlgorithmOptions
    \/ PrepareUserData
    \/ PtLoopCreate
    \/ PtAddInstance
    \/ LoopHandler
    \/ PtLoopReturn
    \/ PtLoopInterrupted
    \/ ErrInstance
    \/ ErrLoopCreate
    \/ ErrProbeCreate
    \/ ErrInitOptions

Spec == Init /\ [][Next]_vars

\* Values given with -z, in thousandths of a second: 0.1 s, 1 s, 1.5 s, 10 s,
\* 10.001 (read as milliseconds), 11 and 2000 (milliseconds)
SendTimes == {100, 1000, 1500, 10000, 10001, 11000, 2000000}

\* The command lines of SpecDelay: -z given or not, every flag, --protocol,
\* --algorithm and destination, no port, default format
DelayArgv == Argv({}, SendTimes, {FALSE}, {format_names[1]})

InitDelay ==
    /\ InitWith(DelayArgv)
    /\ max_ttl = DEFAULT_MAX_TTL
    /\ packet = NoPacket

SpecDelay == InitDelay /\ [][Next]_vars

\* The command lines of SpecHandler: a destination and nothing but the
\* options the handler reads (--algorithm, --format, -S), so main reaches pt_loop
HandlerArgv ==
    {a \in MainArgv :
        /\ a.host = "10.0.0.5" /\ a.P = protocol_names[1]
        /\ ~a.four /\ ~a.six /\ ~a.I /\ ~a.T /\ ~a.U /\ ~a.mda
        /\ a.p = << >> /\ a.s = << >>}

\* Values given with --max-ttl: the smallest, the TTLs around the largest
\* TTL probed, the default
MaxTtls == {1, MaxTtl, MaxTtl + 1, DEFAULT_MAX_TTL}

InitHandler ==
    /\ InitWith(HandlerArgv)
    /\ max_ttl \in MaxTtls
    /\ packet = NoPacket

SpecHandler == InitHandler /\ [][Next]_vars

\* The calls of protocol_field_set, each on a header buffer of its own
InitField ==
    /\ InitWith({CHOOSE a \in MainArgv : a.host = NONE})
    /\ max_ttl = DEFAULT_MAX_TTL
    /\ packet \in Packets

NextField == ProtocolFieldSet

SpecField == InitField /\ [][NextField]_vars

\* ------------------------------------------------------------------------
\* Properties
\* ------------------------------------------------------------------------

\* The globals hold what the command line gave
Parsed == "options_parse" \in steps /\ "options_parse" \notin failed

\* check_options has run / has run and returned true
Checked == "check_options" \in steps
CheckPassed == Checked /\ "check_options" \notin failed

\* The probe skeleton exists and probe_set_protocols gave it its layers
Prepared == "probe_set_protocols" \in steps /\ "probe_set_protocols" \notin failed

PortGiven == src_port.enabled \/ dst_port.enabled

MoreThanOneTransport ==
    (is_icmp /\ is_tcp) \/ (is_icmp /\ is_udp) \/ (is_tcp /\ is_udp)

LoopSteps == {"pt_loop_create", "pt_add_instance", "pt_loop"}

\* C1: whenever ICMP is the selected transport (-I or --protocol icmp) and
\* --src-port or --dst-port was given, check_options returns false and main
\* exits with code 1 without creating the probe skeleton or the loop.
C1_IcmpPortsRejected ==
    (Checked /\ (is_icmp \/ protocol_name = "icmp") /\ PortGiven)
    => /\ "check_options" \in failed
       /\ acquired["probe"] = 0
       /\ acquired["loop"] = 0
       /\ (pc = "exit" => exit_code = 1)

\* C2: with -T, no --src-port, no --dst-port and --protocol at its default,
\* the probe skeleton has the TCP layer, source port 16449 and destination
\* port 80; TCP chosen by --protocol tcp without -T and without explicit
\* ports has the ports 16449 and 16963.
C2_TcpDefaultPorts ==
    (Prepared /\ ~PortGiven)
    => /\ (is_tcp /\ protocol_name = "udp")
          => /\ probe.protocols[2] = "tcp"
             /\ probe.fields["src_port"] = 16449
             /\ probe.fields["dst_port"] = 80
       /\ (~is_tcp /\ ~is_udp /\ ~is_icmp /\ protocol_name = "tcp")
          => /\ probe.protocols[2] = "tcp"
             /\ probe.fields["src_port"] = 16449
             /\ probe.fields["dst_port"] = 16963

\* C3: with UDP probing, no --src-port, no --dst-port and no -U, the probe
\* skeleton's src_port is 33456 and its dst_port is 33457, the defaults of
\* the help text and of the src_port / dst_port option arrays; a port given
\* explicitly is the one written into the probe.
C3_UdpDefaultPorts ==
    (Prepared /\ probe.protocols[2] = "udp")
    => /\ (~PortGiven /\ ~is_udp)
          => /\ probe.fields["src_port"] = 33456
             /\ probe.fields["dst_port"] = 33457
             /\ probe.fields["src_port"] = SRC_PORT_DEF
             /\ probe.fields["dst_port"] = DST_PORT_DEF
       /\ (src_port.enabled => probe.fields["src_port"] = src_port.value)
       /\ (dst_port.enabled => probe.fields["dst_port"] = dst_port.value)

\* C4: whenever exactly one of -I, -T, -U is set, the transport layer given
\* to probe_set_protocols and the branch choosing the default ports are the
\* ones of that flag, whatever --protocol is.
C4_FlagPrecedence ==
    Prepared
    => /\ is_icmp => /\ probe.protocols[2] \in {"icmpv4", "icmpv6"}
                     /\ "src_port" \notin DOMAIN probe.fields
       /\ is_tcp  => /\ probe.protocols[2] = "tcp"
                     /\ ~src_port.enabled => probe.fields["src_port"] = TCP_DEFAULT_SRC_PORT
                     /\ ~dst_port.enabled => probe.fields["dst_port"] = TCP_DST_PORT_USING_T
       /\ is_udp  => /\ probe.protocols[2] = "udp"
                     /\ ~src_port.enabled => probe.fields["src_port"] = UDP_DEFAULT_SRC_PORT
                     /\ ~dst_port.enabled => probe.fields["dst_port"] = UDP_DST_PORT_USING_U

\* C5: check_protocol returns false exactly when more than one of -I, -T, -U
\* is set, and then main exits with code 1 before any probe, loop or
\* algorithm instance is created.
C5_TwoTransportsRejected ==
    Parsed
    => /\ check_protocol(is_icmp, is_tcp, is_udp, protocol_name) = ~MoreThanOneTransport
       /\ MoreThanOneTransport
          => /\ pc \in {"check_options", "ERR_INIT_OPTIONS", "exit"}
             /\ Checked => "check_options" \in failed
             /\ acquired["probe"] = 0
             /\ acquired["loop"] = 0
             /\ steps \cap ({"probe_create"} \cup LoopSteps) = {}
             /\ exit_code = 1

\* C5 witness: main has exited with code 1 on -T -U (and no other conflict)
C5_Witness ==
    /\ pc = "exit" /\ exit_code = 1
    /\ is_tcp /\ is_udp /\ ~is_icmp
    /\ ~(is_ipv4 /\ is_ipv6) /\ ~mda_is_set
    /\ failed = {"check_options"}

\* The family the destination string denotes
FamilyOf(str) ==
    IF str = "10.0.0.5" THEN "AF_INET"
    ELSE IF str = "2001:db8::5" THEN "AF_INET6"
    ELSE NONE

\* The statement choosing the family has run
FamilyChosen == CheckPassed /\ pc # "family"

\* C6: check_ip_version returns false iff -4 and -6 are both set, and then
\* main exits with code 1 without resolving the address or creating a probe;
\* with exactly one of them the family is AF_INET for -4 and AF_INET6 for -6,
\* and with none it is guessed from the destination.
C6_IpVersion ==
    Parsed
    => /\ check_ip_version(is_ipv4, is_ipv6) = ~(is_ipv4 /\ is_ipv6)
       /\ (is_ipv4 /\ is_ipv6)
          => /\ pc \in {"check_options", "ERR_INIT_OPTIONS", "exit"}
             /\ Checked => "check_options" \in failed
             /\ steps \cap {"address_guess_family", "address_from_string", "probe_create"} = {}
             /\ family = NONE
             /\ acquired["probe"] = 0
             /\ exit_code = 1
       /\ (FamilyChosen /\ is_ipv4 /\ ~is_ipv6)
          => family = "AF_INET" /\ "address_guess_family" \notin steps
       /\ (FamilyChosen /\ is_ipv6 /\ ~is_ipv4)
          => family = "AF_INET6" /\ "address_guess_family" \notin steps
       /\ (FamilyChosen /\ ~is_ipv4 /\ ~is_ipv6)
          => family = FamilyOf(dst_ip) /\ "address_guess_family" \in steps

\* C6 witness: main has exited with code 1 on -4 -6 (and no other conflict)
C6_Witness ==
    /\ pc = "exit" /\ exit_code = 1
    /\ is_ipv4 /\ is_ipv6
    /\ ~MoreThanOneTransport /\ ~(is_icmp /\ PortGiven) /\ ~mda_is_set
    /\ failed = {"check_options"}

\* The steps of main(), in program order
Steps ==
    <<"init_options", "options_parse", "check_options", "address_guess_family",
      "address_from_string", "probe_create", "probe_set_protocols", "algorithm",
      "pt_loop_create", "pt_add_instance", "pt_loop">>

\* C7: main exits with 0 if and only if every step succeeded; a failure of
\* any step yields exit code 1 and none of the later steps is executed.
C7_ExitCodes ==
    /\ pc = "exit" => (exit_code = 0 <=> failed = {})
    /\ \A i, j \in 1..Len(Steps) :
         (i < j /\ Steps[i] \in failed) => Steps[j] \notin steps

\* The conditions under which check_options returns false
OptionConflict ==
    \/ is_ipv4 /\ is_ipv6
    \/ MoreThanOneTransport
    \/ is_icmp /\ PortGiven
    \/ mda_is_set /\ argv.a # "mda"

\* The destination is no address of the family that was asked for or guessed
DestinationInvalid ==
    \/ FamilyOf(dst_ip) = NONE
    \/ is_ipv4 /\ FamilyOf(dst_ip) # "AF_INET"
    \/ ~is_ipv4 /\ is_ipv6 /\ FamilyOf(dst_ip) # "AF_INET6"

UnknownAlgorithm == argv.a \notin {"paris-traceroute", "mda"} /\ ~mda_is_set

\* C8: in every execution in which check_options fails, the destination is
\* invalid or the algorithm is unknown, pt_loop_create, pt_add_instance and
\* pt_loop are never called and the handler is never invoked.
C8_ConfigErrorsBeforeLoop ==
    (Parsed /\ (OptionConflict \/ DestinationInvalid \/ UnknownAlgorithm))
    => /\ steps \cap LoopSteps = {}
       /\ acquired["loop"] = 0
       /\ hcalls = << >>
       /\ pc \notin {"pt_loop_create", "pt_add_instance", "pt_loop", "ERR_INSTANCE"}

\* C8 witness: main has exited after rejecting -I with a port, and after
\* having found the destination invalid
C8_Witness ==
    /\ pc = "exit"
    /\ \/ failed = {"check_options"} /\ is_icmp /\ PortGiven
          /\ ~(is_ipv4 /\ is_ipv6) /\ ~MoreThanOneTransport /\ ~mda_is_set
       \/ failed = {"address_from_string"} /\ is_ipv4 /\ dst_ip = "2001:db8::5"

\* C9: every resource acquired during main's initialization is released
\* exactly once on every exit path, and a resource that was never acquired
\* is never released.
C9_ReleasedExactlyOnce ==
    /\ \A r \in Resources : released[r] <= acquired[r]
    /\ pc = "exit" => \A r \in Resources : released[r] = acquired[r]

\* The events whose reply or probe the containers of user_data refer to
Elements(map) == UNION {{map[k][i] : i \in 1..Len(map[k])} : k \in DOMAIN map}

KeptReferences(ud) ==
    IF HasMaps(ud.format)
    THEN {x.reply : x \in Elements(ud.replies_by_ttl)}
         \cup {x.probe : x \in Elements(ud.stars_by_ttl)}
    ELSE {}

\* loop_handler has run at least once
HandlerRan == acquired["loop"] > 0 /\ loop.delivered > 0

\* C10: for every event type and every algorithm name, loop_handler neither
\* frees the event it received nor keeps a reference to the event or to data
\* it carries after it returns.
C10_EventBorrowed ==
    HandlerRan
    => /\ event.state = "allocated"
       /\ "event_free" \notin {hcalls[i] : i \in 1..Len(hcalls)}
       /\ KeptReferences(user_data) = {}

\* ------------------------------------------------------------------------
\* The option -z
\* ------------------------------------------------------------------------

\* The delay, in microseconds, of a -z value v given in thousandths of a
\* second: v seconds up to 10, v milliseconds above
DelayOf(v) == IF v <= 10000 THEN 1000 * v ELSE v

\* C11: every value given with -z, the 0.1 s of the pacing scenario
\* included, is accepted and sets the probe's delay to v seconds when
\* v <= 10 and to v / 1000 seconds when v > 10; without -z no delay is set.
C11_SendTimeUnits ==
    /\ ("options_parse" \in steps /\ argv.z = <<100>> /\ argv.host # NONE) => Parsed
    /\ "probe_set_protocols" \in steps =>
          IF argv.z = << >>
          THEN "delay" \notin DOMAIN probe.fields
          ELSE /\ "delay" \in DOMAIN probe.fields
               /\ probe.fields["delay"] = DelayOf(argv.z[1])

\* ------------------------------------------------------------------------
\* protocol_field_set
\* ------------------------------------------------------------------------

FieldSet == packet.stage = "done"

\* The number whose digits in base 256, most significant first, are `digits`
RECURSIVE number(_)
number(digits) ==
    IF digits = << >> THEN 0
    ELSE 256 * number(SubSeq(digits, 1, Len(digits) - 1)) + digits[Len(digits)]

\* The byte of the buffer at `index` bytes after the field's offset
ByteAt(index) == packet.buffer[packet.offset + index + 1]

\* C12: after a successful protocol_field_set the bytes at the field's
\* offset hold the value in network byte order: a 16-bit value v as
\* v / 256 then v mod 256, a 32-bit value as its four bytes from the most
\* significant to the least, an 8-bit value in the single byte at the offset.
C12_NetworkByteOrder ==
    (FieldSet /\ packet.ret) =>
        /\ packet.ptype = "TYPE_UINT8" => ByteAt(0) = number(packet.int)
        /\ packet.ptype = "TYPE_UINT16" =>
              /\ ByteAt(0) = number(packet.int) \div 256
              /\ ByteAt(1) = number(packet.int) % 256
        /\ packet.ptype = "TYPE_UINT32" =>
              \A i \in 0..3 : ByteAt(i) = packet.int[i + 1]

C12_Witness ==
    /\ FieldSet /\ packet.ret
    /\ packet.endian = "little"
    /\ packet.ptype = "TYPE_UINT16" /\ packet.int = <<18, 52>> /\ packet.offset = 2
    /\ ByteAt(0) = 18 /\ ByteAt(1) = 52

\* C13: when the type of the field_t differs from the type of the protocol
\* field, protocol_field_set returns false and no byte of the buffer changes.
C13_TypeMismatchFails ==
    (FieldSet /\ packet.ftype # packet.ptype) =>
        (~packet.ret /\ packet.buffer = packet.before)

SupportedTypes == {"TYPE_IPV4", "TYPE_IPV6", "TYPE_UINT8", "TYPE_UINT16", "TYPE_UINT32"}

\* ntohs / ntohl
ntoh(endian, digits) == IF endian = "big" THEN digits ELSE Reverse(digits)

\* The value a reader decodes from the field's bytes: integers are loaded
\* from memory and converted from network to host order, addresses are copied
Decoded ==
    LET size  == IF packet.ptype \in {"TYPE_IPV4", "TYPE_IPV6"}
                 THEN Len(packet.addr) ELSE Len(packet.int)
        bytes == SubSeq(packet.buffer, packet.offset + 1, packet.offset + size)
    IN IF packet.ptype \in {"TYPE_IPV4", "TYPE_IPV6"}
       THEN bytes
       ELSE ntoh(packet.endian, IF packet.endian = "big" THEN bytes ELSE Reverse(bytes))

\* The value the field_t carries
Carried ==
    IF packet.ptype \in {"TYPE_IPV4", "TYPE_IPV6"} THEN packet.addr ELSE packet.int

\* C14 as stated: for every field type (u4, u8, u16, u32, v4, v6, bytes,
\* string) and every value, protocol_field_set of a field_t of that type
\* succeeds and decoding the field's bytes yields the value.
C14_RoundTripEveryType ==
    (FieldSet /\ packet.ftype = packet.ptype) => (packet.ret /\ Decoded = Carried)

\* C14, amended: for the types u8, u16, u32, v4 and v6 and every value,
\* protocol_field_set of a field_t of that type succeeds and decoding the
\* field's bytes yields the value; for u4, string and every other type it
\* returns false.
C14_RoundTripSupportedTypes ==
    (FieldSet /\ packet.ftype = packet.ptype) =>
        IF packet.ptype \in SupportedTypes
        THEN packet.ret /\ Decoded = Carried
        ELSE ~packet.ret

C14_Witness ==
    /\ FieldSet /\ packet.ret
    /\ packet.endian = "little"
    /\ packet.ftype = "TYPE_UINT32" /\ packet.ptype = "TYPE_UINT32"
    /\ packet.int = <<1, 2, 3, 4>>
    /\ Decoded = <<1, 2, 3, 4>>

\* The positions of the buffer that belong to the protocol field
FieldBytes ==
    {i \in 1..Len(packet.before) :
        packet.offset < i /\ i <= packet.offset + protocol_field_get_size(packet.ptype)}

\* C21: protocol_field_set changes only the bytes of the field: on success
\* every byte outside [offset, offset + size of the protocol field's type) is
\* unchanged; for a protocol field of an unsupported type (u4, string or any
\* other tag) it returns false and the whole buffer is unchanged.
C21_FrameEffect ==
    FieldSet =>
        /\ Len(packet.buffer) = Len(packet.before)
        /\ \A i \in 1..Len(packet.before) :
              i \notin FieldBytes => packet.buffer[i] = packet.before[i]
        /\ packet.ptype \notin SupportedTypes =>
              (~packet.ret /\ packet.buffer = packet.before)
        /\ ~packet.ret => packet.buffer = packet.before

C21_Witness ==
    /\ FieldSet /\ packet.ret
    /\ packet.ptype = "TYPE_UINT16" /\ packet.offset = 2 /\ packet.int = <<18, 52>>
    /\ FieldBytes = {3, 4}
    /\ \A i \in FieldBytes : packet.buffer[i] # packet.before[i]
    /\ \A i \in (1..Len(packet.before)) \ FieldBytes : packet.buffer[i] = packet.before[i]

\* ------------------------------------------------------------------------
\* loop_handler: output and teardown
\* ------------------------------------------------------------------------

LoopCreated == acquired["loop"] > 0

\* loop_handler has handled ALGORITHM_HAS_TERMINATED
Terminated == LoopCreated /\ loop.terminated

\* Number of tokens t of the output
Occurrences(out, t) == Cardinality({i \in 1..Len(out) : out[i].tok = t})

\* Position of the first call c in a sequence of calls, 0 when absent
FirstCall(seq, c) ==
    IF \E i \in 1..Len(seq) : seq[i] = c
    THEN CHOOSE i \in 1..Len(seq) : seq[i] = c /\ \A j \in 1..(i - 1) : seq[j] # c
    ELSE 0

\* C15: in the default format the lattice of an MDA instance is printed
\* exactly once, only upon ALGORITHM_HAS_TERMINATED (after every link line)
\* and before the MDA data is freed; the MDA data is freed exactly once over
\* the whole run, stopping and removing the instance included.
C15_LatticeOnceFreedOnce ==
    /\ Occurrences(handler_out, "Lattice") <= 1
    /\ Occurrences(handler_out, "Lattice") = 1 =>
          /\ Terminated
          /\ handler_out[Len(handler_out)].tok = "Lattice"
    /\ (Terminated /\ algorithm_name = "mda" /\ user_data.format = "FORMAT_DEFAULT") =>
          /\ Occurrences(handler_out, "Lattice") = 1
          /\ FirstCall(hcalls, "lattice_dump") < FirstCall(hcalls, "mda_data_free")
    /\ LoopCreated => loop.mda_frees <= 1
    /\ (Terminated /\ algorithm_name = "mda") => loop.mda_frees = 1

\* The replies printed so far
PrintedReplies == {handler_out[i] : i \in {j \in 1..Len(handler_out) : handler_out[j].tok = "reply"}}

\* loop_handler has just handled an MDA_PROBE_REPLY event in the JSON format
ReplyHandled ==
    /\ HandlerRan
    /\ event.type = "ALGORITHM_EVENT" /\ event.sub = "MDA_PROBE_REPLY"
    /\ user_data.format = "FORMAT_JSON"

\* The RTT of the reply just handled: the delay stored with it when the
\* output is sorted, the rtt printed for it otherwise
HandledRtt ==
    IF sorted_print
    THEN LET v == user_data.replies_by_ttl[event.ttl] IN v[Len(v)].delay
    ELSE handler_out[Len(handler_out)].rtt

IsJson(t) == t.tok # "loop_handler: format = %d\n"

\* The elements of a vector in arrival order, separated by ","
RECURSIVE Joined(_, _, _)
Joined(kind, vector, j) ==
    IF j > Len(vector) THEN << >>
    ELSE (IF j > 1 THEN <<Text(",")>> ELSE << >>)
         \o <<element_to_json(kind, vector[j])>>
         \o Joined(kind, vector, j + 1)

\* One hop entry for every TTL k .. max that has an element, by increasing
\* TTL, separated by ","
RECURSIVE ExpectedHops(_, _, _, _)
ExpectedHops(kind, map, max, k) ==
    IF k > max THEN << >>
    ELSE IF k \in DOMAIN map
    THEN <<[tok |-> "{\"hop\":i,\"result\":[", ref |-> k, rtt |-> 0]>>
         \o Joined(kind, map[k], 1) \o <<Text("]}")>>
         \o (IF \E later \in DOMAIN map : k < later /\ later <= max
             THEN <<Text(",")>> ELSE << >>)
         \o ExpectedHops(kind, map, max, k + 1)
    ELSE ExpectedHops(kind, map, max, k + 1)

\* The array named `open`: empty, or its hop entries closed by one "]"
ExpectedArray(open, empty, kind, map, max) ==
    IF DOMAIN map = {} THEN <<Text(empty)>>
    ELSE <<Text(open)>> \o ExpectedHops(kind, map, max, 1) \o <<Text("]\n")>>

SortedJsonDone ==
    /\ Terminated /\ algorithm_name = "mda"
    /\ user_data.format = "FORMAT_JSON" /\ sorted_print

\* C17: in the sorted JSON format, after the replies and timeouts of an MDA
\* run and its termination, "results" holds one hop entry for every TTL in
\* 1..max_ttl that has a reply, by strictly increasing TTL, each with its
\* replies in arrival order, and is closed by exactly one "]"; "stars" holds
\* the timeouts in the same way. With max_ttl = 1 the replies of TTL 1 are there.
C17_SortedArrays ==
    SortedJsonDone =>
        SelectSeq(handler_out, IsJson) =
            <<Text("{")>> \o mda_infos_to_json
            \o ExpectedArray("\"results\":[", "\"results\":[]", "reply",
                             user_data.replies_by_ttl, max_ttl)
            \o <<Text(",")>>
            \o ExpectedArray("\"stars\":[", "\"stars\":[]", "star",
                             user_data.stars_by_ttl, max_ttl)
            \o <<Text("}\n")>>

UnsortedJsonDone ==
    /\ Terminated /\ algorithm_name = "mda"
    /\ user_data.format = "FORMAT_JSON" /\ ~sorted_print

\* A single JSON document: "{", the header, "results": [ once, the elements
\* separated by ",", then "]}" once, and nothing else
WellFormed(out) ==
    /\ Len(out) >= 4
    /\ SubSeq(out, 1, 3) = <<Text("{")>> \o mda_infos_to_json \o <<Text("\"results\": [")>>
    /\ out[Len(out)] = Text("]}\n")
    /\ Len(out) > 4 => (Len(out) - 4) % 2 = 1
    /\ \A i \in 4..(Len(out) - 1) :
          IF (i - 4) % 2 = 0 THEN out[i].tok \in {"reply", "star"} ELSE out[i] = Text(",")

\* C18: in the unsorted JSON format, for every sequence of MDA_PROBE_REPLY
\* and MDA_PROBE_TIMEOUT events, the empty one included, followed by
\* ALGORITHM_HAS_TERMINATED, what loop_handler has written to stdout is a
\* single well formed document.
C18_UnsortedDocument == UnsortedJsonDone => WellFormed(handler_out)

\* ------------------------------------------------------------------------
\* Ownership of what the containers hold
\* ------------------------------------------------------------------------

\* The events whose probe and reply have been freed: the data carried by an
\* event is freed when the handler that received it returns
FreedWithEvent == IF HandlerRan THEN 1..loop.delivered ELSE {}

\* The probes and replies read by the dump of the sorted containers
ReadByDump == {handler_out[i].ref : i \in {j \in 1..Len(handler_out) :
                                            handler_out[j].tok \in {"reply", "star"}}}

\* C19: every reply or probe reachable from replies_by_ttl or stars_by_ttl is
\* a copy the container owns, never the probe or reply of an event, which is
\* freed when the handler returns; the dump at ALGORITHM_HAS_TERMINATED never
\* reads a freed probe.
C19_ContainersOwnClones ==
    HandlerRan =>
        /\ KeptReferences(user_data) \cap FreedWithEvent = {}
        /\ SortedJsonDone => ReadByDump \cap FreedWithEvent = {}

\* ------------------------------------------------------------------------
\* Teardown on ALGORITHM_HAS_TERMINATED
\* ------------------------------------------------------------------------

\* Number of calls c in a sequence of calls
CallCount(seq, c) == Cardinality({i \in 1..Len(seq) : seq[i] = c})

TeardownCalls == {"pt_stop_instance", "pt_del_instance", "pt_loop_terminate"}

\* The calls of the handler's last run: the teardown in its order, then the
\* event freed, for ALGORITHM_HAS_TERMINATED; no teardown call otherwise
TeardownInOrder ==
    HandlerRan =>
        IF event.type = "ALGORITHM_HAS_TERMINATED"
        THEN /\ \A c \in TeardownCalls \cup {"event_free"} : CallCount(hcalls, c) = 1
             /\ FirstCall(hcalls, "pt_stop_instance") < FirstCall(hcalls, "pt_del_instance")
             /\ FirstCall(hcalls, "pt_del_instance") < FirstCall(hcalls, "pt_loop_terminate")
             /\ FirstCall(hcalls, "pt_loop_terminate") < FirstCall(hcalls, "event_free")
             /\ FirstCall(hcalls, "event_free") = Len(hcalls)
        ELSE /\ \A c \in TeardownCalls : CallCount(hcalls, c) = 0
             /\ ~loop.terminated /\ loop.instance = "running"

\* C20: on ALGORITHM_HAS_TERMINATED, for every algorithm and format,
\* loop_handler calls pt_stop_instance, then pt_del_instance, then
\* pt_loop_terminate, each exactly once and in that order, and frees the event
\* only afterwards; no other event causes any of the three calls, and once
\* they are made the handler does not run again.
C20_TeardownOrder ==
    /\ [](TeardownInOrder)
    /\ [][(LoopCreated /\ loop.terminated) => UNCHANGED <<hcalls, event, loop>>]_vars

C20_Witness ==
    /\ HandlerRan /\ loop.delivered = 2
    /\ algorithm_name = "traceroute"
    /\ event.type = "ALGORITHM_HAS_TERMINATED"
    /\ hcalls = <<"pt_stop_instance", "pt_del_instance", "pt_loop_terminate", "event_free">>
    /\ loop.terminated /\ loop.instance = "deleted"

====
